---- MODULE Spec2Model ----
(***************************************************************************)
(* A model of src/app.py: a Streamlit chat page that answers a user input  *)
(* either with raw web-search results ("search:" inputs) or with a model   *)
(* answer streamed by get_gemini_streaming, which falls back across the    *)
(* variants of MODEL_PRIORITY; the page keeps the active chat (messages)   *)
(* and the archived chats (past_chats) in the session state.               *)
(*                                                                         *)
(* Text is a sequence of one-character strings, so that str.lower,        *)
(* str.startswith, str.replace, str.strip and the `in` substring test are  *)
(* computed character by character, as Python computes them.  The two code *)
(* points of the warning sign are the elements "U+26A0" and "U+FE0F".      *)
(***************************************************************************)
EXTENDS Integers, Sequences, FiniteSets, TLC

(* ------------------------------ bounds --------------------------------- *)

\* Two explorations share the actions below and differ in what the user and
\* the model provider may do, which Init and InitGen write into budget.
\*   Spec     a session of up to MaxTurns inputs, in which the model provider
\*            delivers up to SessionEvents stream events and exceptions;
\*   SpecGen  a session of a single input, hence of at most one run of
\*            get_gemini_streaming, in which the provider delivers up to
\*            MaxChunks stream events and any exceptions.

\* Spec: user inputs submitted in one session.
MaxTurns == 2

\* Spec: what the model provider delivers in one session, stream events (parts
\* of chunks) and exceptions together.
SessionEvents == 1

\* SpecGen: stream events (parts of chunks) delivered during the run of
\* get_gemini_streaming, all variants together.
MaxChunks == 2

(* --------------------------- text functions ---------------------------- *)

UpperLetters ==
    <<"A", "B", "C", "D", "E", "F", "G", "H", "I", "J", "K", "L", "M",
      "N", "O", "P", "Q", "R", "S", "T", "U", "V", "W", "X", "Y", "Z">>

LowerLetters ==
    <<"a", "b", "c", "d", "e", "f", "g", "h", "i", "j", "k", "l", "m",
      "n", "o", "p", "q", "r", "s", "t", "u", "v", "w", "x", "y", "z">>

\* The lower-case letter of each upper-case letter.
LowerOf ==
    [c \in {UpperLetters[i] : i \in 1..Len(UpperLetters)} |->
        LowerLetters[CHOOSE i \in 1..Len(UpperLetters) : UpperLetters[i] = c]]

\* str.lower() on one character.
LowerChar(c) == IF c \in DOMAIN LowerOf THEN LowerOf[c] ELSE c

\* str.lower()
Lower(s) == [i \in 1..Len(s) |-> LowerChar(s[i])]

\* str.startswith(p)
StartsWith(s, p) == Len(s) >= Len(p) /\ SubSeq(s, 1, Len(p)) = p

\* `sub in s`
Contains(s, sub) ==
    \E i \in 0..(Len(s) - Len(sub)) : SubSeq(s, i + 1, i + Len(sub)) = sub

\* s[n:]
Drop(s, n) == SubSeq(s, n + 1, Len(s))

\* str.replace(old, ""): every non-overlapping occurrence of old, scanning from
\* the left, is removed.
RECURSIVE RemoveAll(_, _)
RemoveAll(s, old) ==
    IF Len(s) < Len(old) \/ old = <<>> THEN s
    ELSE IF StartsWith(s, old) THEN RemoveAll(Drop(s, Len(old)), old)
    ELSE <<Head(s)>> \o RemoveAll(Tail(s), old)

\* The characters str.strip() removes, among those the model uses.
Whitespace == {" ", "\n"}

RECURSIVE LStrip(_)
LStrip(s) ==
    IF s # <<>> /\ Head(s) \in Whitespace THEN LStrip(Tail(s)) ELSE s

RECURSIVE RStrip(_)
RStrip(s) ==
    IF s # <<>> /\ s[Len(s)] \in Whitespace
    THEN RStrip(SubSeq(s, 1, Len(s) - 1)) ELSE s

\* str.strip()
Strip(s) == RStrip(LStrip(s))

\* sep.join(parts)
RECURSIVE Join(_, _)
Join(sep, parts) ==
    IF parts = <<>> THEN <<>>
    ELSE IF Len(parts) = 1 THEN parts[1]
    ELSE parts[1] \o sep \o Join(sep, Tail(parts))

\* q[::-1]
Reverse(q) == [i \in 1..Len(q) |-> q[Len(q) + 1 - i]]

\* The concatenation of a sequence of sequences.
RECURSIVE Flatten(_)
Flatten(qs) == IF qs = <<>> THEN <<>> ELSE Head(qs) \o Flatten(Tail(qs))

Last(q) == q[Len(q)]

(* --------------------------- program constants ------------------------- *)

MODEL_PRIORITY == <<"gemini-2.5-flash", "gemini-2.5-pro", "gemini-2.5-flash-lite">>

N == Len(MODEL_PRIORITY)

\* The literal "search:" of lines 141 and 142.
SearchPrefix == <<"s", "e", "a", "r", "c", "h", ":">>

\* The num argument of both google_search calls of the input handler.
SearchCount == 5

\* time.sleep(2)
RateLimitDelay == 2

\* The literal "429" of line 72.
RateLimitMark == <<"4", "2", "9">>

\* The text of line 80.
FallbackMessage ==
    <<"U+26A0", "U+FE0F", " ", "C", "o", "u", "l", "d", " ", "n", "o", "t",
      " ", "g", "e", "n", "e", "r", "a", "t", "e", " ", "a", " ", "r", "e",
      "s", "p", "o", "n", "s", "e", ".", " ", "A", "l", "l", " ", "m", "o",
      "d", "e", "l", "s", " ", "f", "a", "i", "l", "e", "d", ".">>

\* str(None)
NoneText == <<"N", "o", "n", "e">>

\* The three literal pieces of the f-string of line 152.
PromptHead ==
    <<"A", "n", "s", "w", "e", "r", " ", "t", "h", "e", " ", "u", "s", "e",
      "r", " ", "q", "u", "e", "r", "y", " ", "u", "s", "i", "n", "g", " ",
      "t", "h", "e", " ", "f", "o", "l", "l", "o", "w", "i", "n", "g", " ",
      "c", "o", "n", "t", "e", "x", "t", " ", "f", "r", "o", "m", " ", "r",
      "e", "c", "e", "n", "t", " ", "w", "e", "b", " ", "s", "e", "a", "r",
      "c", "h", " ", "r", "e", "s", "u", "l", "t", "s", ":", "\n">>

PromptQuestion ==
    <<"\n", "\n", "Q", "u", "e", "s", "t", "i", "o", "n", ":", " ">>

PromptTail ==
    <<"\n", "P", "r", "o", "v", "i", "d", "e", " ", "a", " ", "c", "l", "e",
      "a", "r", " ", "a", "n", "d", " ", "c", "o", "n", "c", "i", "s", "e",
      " ", "a", "n", "s", "w", "e", "r", ",", " ", "e", "x", "p", "l", "a",
      "i", "n", "i", "n", "g", " ", "a", "n", "y", " ", "d", "i", "s", "c",
      "r", "e", "p", "a", "n", "c", "i", "e", "s", " ", "i", "f", " ", "m",
      "u", "l", "t", "i", "p", "l", "e", " ", "s", "o", "u", "r", "c", "e",
      "s", " ", "d", "i", "f", "f", "e", "r", ".">>

(* ------------------------------ inputs --------------------------------- *)

\* What the user types into st.chat_input: never empty (line 134).
UserInputs ==
    { <<"H", "i">>,
      <<"S", "e", "a", "r", "c", "h", ":">> \o <<"x">>,
      SearchPrefix \o <<"x", " ">> \o SearchPrefix \o <<"y">> }

\* What the user types into the "Search Past Chats" field.
SearchQueries == { <<>>, <<"H">> }

\* Lines 12-14: the three names read from the environment.
CredentialNames == {"GEMINI_API_KEY", "GOOGLE_API_KEY", "GOOGLE_CSE_ID"}

(* ----------------------- the external services -------------------------- *)

\* An optional text: dict.get of a key that may be missing gives None.
Some(t) == [some |-> TRUE, val |-> t]
None == [some |-> FALSE, val |-> <<>>]

\* What an f-string renders for an optional text.
Str(o) == IF o.some THEN o.val ELSE NoneText

\* One entry of res["items"]; a key of it may be missing.
Item(t, l, s) == [title |-> t, link |-> l, snippet |-> s]

\* What os.getenv gives for a name: None when it is not set, or its value,
\* which may be the empty string.
CredentialValues == {None, Some(<<>>), Some(<<"k">>)}

\* What the custom-search provider does with one request: it raises, or it
\* returns a document with or without an "items" list.  The items are what it
\* found for the query, of which it returns as many as the request asks for.
SearchResponses ==
    { [raises |-> TRUE, err |-> <<"5", "0", "3">>, hasItems |-> FALSE, items |-> <<>>],
      [raises |-> FALSE, err |-> <<>>, hasItems |-> FALSE, items |-> <<>>],
      [raises |-> FALSE, err |-> <<>>, hasItems |-> TRUE,
       items |-> << Item(Some(<<"T">>), Some(<<"u">>), None),
                    Item(None, None, Some(<<"X">>)),
                    Item(Some(<<"3">>), Some(<<"v">>), Some(<<"c">>)),
                    Item(Some(<<"4">>), Some(<<"w">>), Some(<<"d">>)),
                    Item(Some(<<"5">>), Some(<<"y">>), Some(<<"e">>)),
                    Item(Some(<<"6">>), Some(<<"z">>), Some(<<"f">>)) >>] }

\* Line 33: the items of the document the provider returns to a request with
\* num=n, which are the first n of what it found.
ProviderItems(resp, n) ==
    SubSeq(resp.items, 1, IF Len(resp.items) < n THEN Len(resp.items) ELSE n)

\* Exceptions of the model provider, with the text str(e) gives.  A
\* ResourceExhausted error prints its status code 429 first; another error may
\* hold the digits 429 anywhere in its message.
ModelErrors ==
    { [kind |-> "rate_limit", msg |-> <<"4", "2", "9", " ", "q">>],
      [kind |-> "other", msg |-> <<"5", "0", "0">>],
      [kind |-> "other", msg |-> <<"i", "d", "1", "4", "2", "9">>] }

\* The part.text values a stream delivers.
Fragments == { <<>>, <<" ">>, <<"a">> }

\* One event of a response stream: a part with a text, or a chunk the loop body
\* passes over (no candidates, a part without text, an exception caught at
\* line 62).
StreamEvents ==
    { [text |-> TRUE, frag |-> f] : f \in Fragments }
        \cup { [text |-> FALSE, frag |-> <<>>] }

(* ------------------------------- state --------------------------------- *)

VARIABLES
    messages,       \* st.session_state.messages: the active chat
    past_chats,     \* st.session_state.past_chats: the archive
    search_query,   \* the "Search Past Chats" field, kept across reruns
    searchOut,      \* the messages lines 119-122 rendered in the last run
    pc,             \* where the script run is
    trigger,        \* the widget whose use started the last script run
    prompt,         \* the input of line 134
    query,          \* line 142
    results,        \* line 143 or line 150
    streamed_text,  \* line 156, 158
    model_idx,      \* position of the for loop of line 49 in MODEL_PRIORITY
    partial_text,   \* line 54, 60
    credentials,    \* lines 12-14: what os.getenv gave for the three names
    budget,         \* what the exploration allows: inputs, provider events
    turns,          \* inputs submitted so far
    chunks,         \* stream events delivered so far
    errors,         \* exceptions the model provider raised so far
    calls,          \* the external calls of the current input, in order, a
                    \* Search Client call with what the provider did with it
    yields,         \* what the current generator run yielded, in order
    received,       \* the fragments the current variant's stream delivered
    outcomes,       \* how each attempted variant of the current run ended
    delays,         \* the time.sleep calls of the current run: the seconds of each
    notices         \* st.warning / st.error calls of the current run

vars ==
    << messages, past_chats, search_query, searchOut, pc, trigger, prompt, query,
       results, streamed_text, model_idx, partial_text, credentials, budget,
       turns, chunks, errors, calls, yields, received, outcomes, delays, notices >>

Message(role, content) == [role |-> role, content |-> content]

\* A slip of line 136: the input is stored lower-cased.
UserMessageLowered(p) == Message("user", Lower(p))

\* Line 136: the Message of a user input.
UserMessage(p) == Message("user", p)

\* The process is started with some environment; the first script run has not
\* begun, and the session it will initialise (lines 92-96) holds no Message.
Start ==
    /\ credentials \in [CredentialNames -> CredentialValues]
    /\ messages = <<>>
    /\ past_chats = <<>>
    /\ search_query = <<>>
    /\ searchOut = <<>>
    /\ pc = "start"
    /\ trigger = "none"
    /\ prompt = <<>>
    /\ query = <<>>
    /\ results = <<>>
    /\ streamed_text = <<>>
    /\ model_idx = 1
    /\ partial_text = <<>>
    /\ turns = 0
    /\ chunks = 0
    /\ errors = 0
    /\ calls = <<>>
    /\ yields = <<>>
    /\ received = <<>>
    /\ outcomes = <<>>
    /\ delays = <<>>
    /\ notices = <<>>

Init ==
    /\ Start
    /\ budget = [turns |-> MaxTurns, chunks |-> SessionEvents,
                 errors |-> SessionEvents, events |-> SessionEvents]

InitGen ==
    /\ Start
    /\ budget = [turns |-> 1, chunks |-> MaxChunks, errors |-> N,
                 events |-> MaxChunks + N]

(* ------------------------- google_search ------------------------------- *)

\* A slip of lines 42-43: the failure is swallowed, no record is returned.
google_searchNoErrorRecord(resp, num) ==
    IF resp.raises \/ ~resp.hasItems THEN <<>>
    ELSE ProviderItems(resp, num)

\* google_search(query, num), given what the provider does with the request:
\* the records of res["items"] with the three keys read by dict.get, no record
\* when the document has no "items", and one "Error" record when the call
\* raises.
google_search(resp, num) ==
    IF resp.raises
    THEN << [title |-> Some(<<"E", "r", "r", "o", "r">>), link |-> Some(<<>>),
             snippet |-> Some(resp.err)] >>
    ELSE IF resp.hasItems
    THEN LET items == ProviderItems(resp, num)
         IN  [i \in 1..Len(items) |->
                [title |-> items[i].title, link |-> items[i].link,
                 snippet |-> items[i].snippet]]
    ELSE <<>>

\* Line 144: f"**{r['title']}**\n{r['link']}\n{r['snippet']}"
FormatResult(r) ==
    <<"*", "*">> \o Str(r.title) \o <<"*", "*", "\n">> \o Str(r.link)
        \o <<"\n">> \o Str(r.snippet)

\* Line 144: the flat markdown block of the search branch.
FormattedResults(rs) ==
    Join(<<"\n">>, [i \in 1..Len(rs) |-> FormatResult(rs[i])])

\* Line 151: f"- {r['title']}: {r['snippet']} ({r['link']})"
ContextLine(r) ==
    <<"-", " ">> \o Str(r.title) \o <<":", " ">> \o Str(r.snippet)
        \o <<" ", "(">> \o Str(r.link) \o <<")">>

\* Line 151
ContextText(rs) == Join(<<"\n">>, [i \in 1..Len(rs) |-> ContextLine(rs[i])])

\* Line 152: the prompt get_gemini_streaming is called with, which is the same
\* for the whole run as neither the input nor the results change.
FullPrompt(p, rs) ==
    PromptHead \o ContextText(rs) \o PromptQuestion \o p \o PromptTail

(* ------------------------- the conversation store ---------------------- *)

\* A slip of line 106: the chat is inserted at the head of the archive.
ArchivedFirst(chats, msgs) ==
    IF msgs # <<>> THEN <<msgs>> \o chats ELSE chats

\* A slip of line 105: the test is missing, an empty chat is archived too.
ArchivedAlways(chats, msgs) == Append(chats, msgs)

\* Lines 105-106: the archive after New Chat.
Archived(chats, msgs) ==
    IF msgs # <<>> THEN Append(chats, msgs) ELSE chats

\* A slip of line 120: the content is not lower-cased.
MatchingCaseSensitive(chat, q) ==
    SelectSeq(chat, LAMBDA m : Contains(m.content, Lower(q)))

\* Line 120: the messages of one archived chat that match the query.
Matching(chat, q) ==
    SelectSeq(chat, LAMBDA m : Contains(Lower(m.content), Lower(q)))

\* Lines 117-122: the messages rendered under "Search Results for", in order.
SearchPastChats(chats, q) ==
    IF q = <<>> THEN <<>>
    ELSE LET rev == Reverse(chats)
         IN  Flatten([i \in 1..Len(rev) |-> Matching(rev[i], q)])

(* ------------------------------ dispatch ------------------------------- *)

\* A slip of line 141: the input is not lower-cased.
IsSearchCommandCaseSensitive(p) == StartsWith(p, SearchPrefix)

\* Line 141: prompt.lower().startswith("search:")
IsSearchCommand(p) == StartsWith(Lower(p), SearchPrefix)

\* Line 142: prompt.replace("search:", "").strip()
QueryOf(p) == Strip(RemoveAll(p, SearchPrefix))

(* -------------------------- get_gemini_streaming ----------------------- *)

\* A slip of line 60: partial_text = part.text, the delta in place of the total.
AccumulateDelta(partial, frag) == frag

\* Line 60: partial_text += part.text
Accumulate(partial, frag) == partial \o frag

\* A slip of line 65: the test inverted, `if not partial_text.strip()`.
HasTextInverted(t) == Strip(t) = <<>>

\* Line 65: the truth value of partial_text.strip()
HasText(t) == Strip(t) # <<>>

\* A slip of lines 65-66: the return is missing, the loop always goes on.
CompletedNoReturn(t) == "continue"

\* Lines 65-69: what the loop does when a stream is exhausted.
Completed(t) == IF HasText(t) THEN "return" ELSE "continue"

\* A slip of line 72: another status code is looked for.
IsRateLimitWrongCode(e) == Contains(e.msg, <<"4", "0", "3">>)

\* Line 72: "429" in str(e)
IsRateLimit(e) == Contains(e.msg, RateLimitMark)

NoError == [kind |-> "none", msg |-> <<>>]

(* ------------------------------ actions -------------------------------- *)

\* What a script run keeps only while it runs: the locals of the input handler
\* and of the generator, and the record of what the run did.
runVars ==
    << prompt, query, results, streamed_text, model_idx, partial_text, calls,
       yields, received, outcomes, delays, notices >>

\* What no step of the program changes, or only the model provider does.
envVars == << credentials, budget, turns, chunks, errors, trigger >>

\* A slip of line 16: `is None` in place of `not`, an empty value passes.
MissingOnlyIfAbsent(c) == ~c.some

\* Line 16: `not X` is true of None and of the empty string.
Missing(c) == ~c.some \/ c.val = <<>>

\* Line 16: the condition of the startup check.
MissingCredentials == \E n \in CredentialNames : Missing(credentials[n])

\* Lines 12-18 and 92-96: the first script run finds the three credentials,
\* initialises the session state and waits for the user.
Startup ==
    /\ pc = "start"
    /\ ~MissingCredentials
    /\ pc' = "idle"
    /\ UNCHANGED << messages, past_chats, search_query, searchOut >>
    /\ UNCHANGED envVars
    /\ UNCHANGED runVars

\* Lines 16-18: a credential is missing; the script run shows the error and
\* stops there, and so does every later run of the script.
StopMissingCredentials ==
    /\ pc \in {"start", "halted"}
    /\ MissingCredentials
    /\ notices' = <<"error">>
    /\ pc' = "halted"
    /\ UNCHANGED << messages, past_chats, search_query, searchOut, prompt,
                    query, results, streamed_text, model_idx, partial_text,
                    calls, yields, received, outcomes, delays >>
    /\ UNCHANGED envVars

\* Lines 104-107, and lines 116-122 of the same run: the New Chat button.
NewChat ==
    /\ pc = "idle"
    /\ past_chats' = Archived(past_chats, messages)
    /\ messages' = <<>>
    /\ searchOut' = SearchPastChats(past_chats', search_query)
    /\ trigger' = "New Chat"
    /\ UNCHANGED << search_query, pc, credentials, budget, turns, chunks,
                    errors >>
    /\ UNCHANGED runVars

\* Lines 116-122: the user changes the "Search Past Chats" field.
TypeSearch(s) ==
    /\ pc = "idle"
    /\ search_query' = s
    /\ searchOut' = SearchPastChats(past_chats, s)
    /\ trigger' = "Search Past Chats"
    /\ UNCHANGED << messages, past_chats, pc, credentials, budget, turns,
                    chunks, errors >>
    /\ UNCHANGED runVars

\* Lines 116-122 and 134-136: the user submits an input; the sidebar is
\* rendered first, then the user Message is appended.
SubmitInput(p) ==
    /\ pc = "idle"
    /\ turns < budget.turns
    /\ turns' = turns + 1
    /\ searchOut' = SearchPastChats(past_chats, search_query)
    /\ prompt' = p
    /\ messages' = Append(messages, UserMessage(p))
    /\ pc' = "dispatch"
    /\ trigger' = "chat_input"
    /\ UNCHANGED << past_chats, search_query, query, results, streamed_text,
                    model_idx, partial_text, credentials, budget, chunks,
                    errors, calls,
                    yields, received, outcomes, delays, notices >>

\* Lines 141-143: the "search:" branch calls the Search Client.
SearchCall ==
    /\ pc = "dispatch"
    /\ IsSearchCommand(prompt)
    /\ query' = QueryOf(prompt)
    /\ \E resp \in SearchResponses :
          /\ results' = google_search(resp, SearchCount)
          /\ calls' = Append(calls, [op |-> "search", arg |-> query',
                                     num |-> SearchCount, answer |-> resp])
    /\ pc' = "search_append"
    /\ UNCHANGED << messages, past_chats, search_query, searchOut, prompt,
                    streamed_text, model_idx, partial_text, yields, received,
                    outcomes, delays, notices >>
    /\ UNCHANGED envVars

\* A slip of line 147: the search branch shows the results and does not store
\* them.
AppendSearchResultsNotStored ==
    /\ pc = "search_append"
    /\ pc' = "end"
    /\ UNCHANGED << messages, past_chats, search_query, searchOut >>
    /\ UNCHANGED envVars
    /\ UNCHANGED runVars

\* Lines 144-147: the formatted results become the assistant Message.
AppendSearchResults ==
    /\ pc = "search_append"
    /\ messages' = Append(messages, Message("assistant", FormattedResults(results)))
    /\ pc' = "end"
    /\ UNCHANGED << past_chats, search_query, searchOut >>
    /\ UNCHANGED envVars
    /\ UNCHANGED runVars

\* Lines 150-157: the generation branch calls the Search Client with the whole
\* input, assembles the prompt FullPrompt(prompt, results) and creates the
\* generator (which runs nothing before the first element is asked for).
GenerateCall ==
    /\ pc = "dispatch"
    /\ ~IsSearchCommand(prompt)
    /\ \E resp \in SearchResponses :
          /\ results' = google_search(resp, SearchCount)
          /\ calls' = Append(calls, [op |-> "search", arg |-> prompt,
                                     num |-> SearchCount, answer |-> resp])
    /\ streamed_text' = <<>>
    /\ model_idx' = 1
    /\ pc' = "try"
    /\ UNCHANGED << messages, past_chats, search_query, searchOut, prompt,
                    query, partial_text, yields, received, outcomes, delays,
                    notices >>
    /\ UNCHANGED envVars

\* A slip of lines 75 and 78: the failed variant is tried again.
FailRetrySame(e, where, sofar) ==
    /\ errors < budget.errors
    /\ chunks + errors < budget.events
    /\ errors' = errors + 1
    /\ delays' = IF IsRateLimit(e) THEN Append(delays, RateLimitDelay) ELSE delays
    /\ notices' = Append(notices, IF IsRateLimit(e) THEN "warning" ELSE "error")
    /\ outcomes' = Append(outcomes,
           [variant |-> model_idx, end |-> "raised", at |-> where,
            text |-> sofar, err |-> e, slept |-> IsRateLimit(e)])
    /\ model_idx' = model_idx
    /\ pc' = "try"

\* Lines 71-78: the handler of an exception e of the attempt of the current
\* variant, raised by the call or by the stream after it delivered the text
\* sofar; the loop goes on with the next variant.
Fail(e, where, sofar) ==
    /\ errors < budget.errors
    /\ chunks + errors < budget.events
    /\ errors' = errors + 1
    /\ delays' = IF IsRateLimit(e) THEN Append(delays, RateLimitDelay) ELSE delays
    /\ notices' = Append(notices, IF IsRateLimit(e) THEN "warning" ELSE "error")
    /\ outcomes' = Append(outcomes,
           [variant |-> model_idx, end |-> "raised", at |-> where,
            text |-> sofar, err |-> e, slept |-> IsRateLimit(e)])
    /\ model_idx' = model_idx + 1
    /\ pc' = "try"

\* A slip of line 54: partial_text is set to "" once, before the loop over the
\* variants, and so keeps the text of the variants given up.
StartVariantNoReset ==
    /\ pc = "try"
    /\ model_idx <= N
    /\ calls' = Append(calls,
           [op |-> "generate", arg |-> MODEL_PRIORITY[model_idx], num |-> 0])
    /\ \/ /\ partial_text' = partial_text
          /\ received' = <<>>
          /\ pc' = "stream"
          /\ UNCHANGED << model_idx, outcomes, delays, notices, errors >>
       \/ /\ \E e \in ModelErrors : Fail(e, "call", <<>>)
          /\ UNCHANGED << partial_text, received >>
    /\ UNCHANGED << messages, past_chats, search_query, searchOut, prompt,
                    query, results, streamed_text, credentials, budget, turns,
                    chunks, trigger, yields >>

\* Lines 49-54: the next variant's streaming call is opened, or raises.
StartVariant ==
    /\ pc = "try"
    /\ model_idx <= N
    /\ calls' = Append(calls,
           [op |-> "generate", arg |-> MODEL_PRIORITY[model_idx], num |-> 0])
    /\ \/ /\ partial_text' = <<>>
          /\ received' = <<>>
          /\ pc' = "stream"
          /\ UNCHANGED << model_idx, outcomes, delays, notices, errors >>
       \/ /\ \E e \in ModelErrors : Fail(e, "call", <<>>)
          /\ UNCHANGED << partial_text, received >>
    /\ UNCHANGED << messages, past_chats, search_query, searchOut, prompt,
                    query, results, streamed_text, credentials, budget, turns,
                    chunks,
                    trigger, yields >>

\* Lines 55-63 and 157-159: the stream delivers one event; a text part is
\* added to partial_text, which is yielded and kept by the caller.
StreamChunk ==
    /\ pc = "stream"
    /\ chunks < budget.chunks
    /\ chunks + errors < budget.events
    /\ chunks' = chunks + 1
    /\ \E ev \in StreamEvents :
          IF ev.text
          THEN /\ partial_text' = Accumulate(partial_text, ev.frag)
               /\ received' = Append(received, ev.frag)
               /\ yields' = Append(yields,
                      [variant |-> model_idx, fallback |-> FALSE,
                       text |-> partial_text'])
               /\ streamed_text' = partial_text'
          ELSE UNCHANGED << partial_text, received, yields, streamed_text >>
    /\ UNCHANGED << messages, past_chats, search_query, searchOut, pc, prompt,
                    query, results, model_idx, credentials, budget, turns,
                    errors, trigger,
                    calls, outcomes, delays, notices >>

\* Lines 65-69: the stream is exhausted; the generator returns when the text
\* is not blank, and goes on with the next variant when it is.
StreamEnd ==
    /\ pc = "stream"
    /\ outcomes' = Append(outcomes,
           [variant |-> model_idx, end |-> "completed", at |-> "stream",
            text |-> partial_text, err |-> NoError, slept |-> FALSE])
    /\ IF Completed(partial_text) = "return"
       THEN /\ pc' = "gen_done"
            /\ UNCHANGED << model_idx, notices >>
       ELSE /\ notices' = Append(notices, "warning")
            /\ model_idx' = model_idx + 1
            /\ pc' = "try"
    /\ UNCHANGED << messages, past_chats, search_query, searchOut, prompt,
                    query, results, streamed_text, partial_text, calls, yields,
                    received, delays >>
    /\ UNCHANGED envVars

\* A slip of line 71: the except clause is missing, so an exception raised
\* while the stream is iterated ends the script run where it is raised.
StreamErrorUncaught ==
    /\ pc = "stream"
    /\ errors < budget.errors
    /\ chunks + errors < budget.events
    /\ errors' = errors + 1
    /\ pc' = "idle"
    /\ UNCHANGED << messages, past_chats, search_query, searchOut, trigger,
                    credentials, budget, turns, chunks >>
    /\ UNCHANGED runVars

\* Lines 55 and 71-78: iterating the stream raises.
StreamError ==
    /\ pc = "stream"
    /\ \E e \in ModelErrors : Fail(e, "stream", partial_text)
    /\ UNCHANGED << messages, past_chats, search_query, searchOut, prompt,
                    query, results, streamed_text, partial_text, credentials,
                    budget, turns,
                    chunks, trigger, calls, yields, received >>

\* A slip of line 80: the statement is missing, the generator ends without
\* the fallback message.
YieldFallbackMissing ==
    /\ pc = "try"
    /\ model_idx = N + 1
    /\ pc' = "gen_done"
    /\ UNCHANGED << messages, past_chats, search_query, searchOut >>
    /\ UNCHANGED envVars
    /\ UNCHANGED runVars

\* Line 80: every variant was tried; the fallback message is yielded.
YieldFallback ==
    /\ pc = "try"
    /\ model_idx = N + 1
    /\ yields' = Append(yields,
           [variant |-> model_idx, fallback |-> TRUE, text |-> FallbackMessage])
    /\ streamed_text' = FallbackMessage
    /\ pc' = "gen_done"
    /\ UNCHANGED << messages, past_chats, search_query, searchOut, prompt,
                    query, results, model_idx, partial_text, calls, received,
                    outcomes, delays, notices >>
    /\ UNCHANGED envVars

\* Lines 160-162: the generator is exhausted; the last element it yielded
\* becomes the assistant Message.
AppendAssistant ==
    /\ pc = "gen_done"
    /\ messages' = Append(messages, Message("assistant", streamed_text))
    /\ pc' = "end"
    /\ UNCHANGED << past_chats, search_query, searchOut >>
    /\ UNCHANGED envVars
    /\ UNCHANGED runVars

\* The script run ends: its locals are gone, the session state stays.
EndRun ==
    /\ pc = "end"
    /\ pc' = "idle"
    /\ prompt' = <<>>
    /\ query' = <<>>
    /\ results' = <<>>
    /\ streamed_text' = <<>>
    /\ model_idx' = 1
    /\ partial_text' = <<>>
    /\ calls' = <<>>
    /\ yields' = <<>>
    /\ received' = <<>>
    /\ outcomes' = <<>>
    /\ delays' = <<>>
    /\ notices' = <<>>
    /\ UNCHANGED << messages, past_chats, search_query, searchOut >>
    /\ UNCHANGED envVars

Next ==
    \/ Startup
    \/ StopMissingCredentials
    \/ NewChat
    \/ \E s \in SearchQueries : TypeSearch(s)
    \/ \E p \in UserInputs : SubmitInput(p)
    \/ SearchCall
    \/ AppendSearchResults
    \/ GenerateCall
    \/ StartVariant
    \/ StreamChunk
    \/ StreamEnd
    \/ StreamError
    \/ YieldFallback
    \/ AppendAssistant
    \/ EndRun

Spec == Init /\ [][Next]_vars

SpecGen == InitGen /\ [][Next]_vars

(* ======================================================================= *)
(* The claims.  C1-C4 are about one run of get_gemini_streaming and are    *)
(* checked under SpecGen.                                                  *)
(* ======================================================================= *)

IsPrefix(a, b) == Len(a) <= Len(b) /\ SubSeq(b, 1, Len(a)) = a

\* Some character of t is not whitespace.
NonBlank(t) == \E i \in 1..Len(t) : t[i] \notin Whitespace

\* The generator has ended: every element was yielded and taken, and the
\* script run goes on after the loop of line 157.
GenEnded == pc \in {"gen_done", "end"}

\* The calls of model.generate_content of the current run.
Attempts == SelectSeq(calls, LAMBDA c : c.op = "generate")

\* Every attempt before the last completed its stream with no text at all.
EarlierVariantsEmpty ==
    /\ Len(outcomes) = N
    /\ \A i \in 1..(N - 1) :
          outcomes[i].end = "completed" /\ outcomes[i].text = <<>>
    /\ outcomes[N].end = "completed"

\* The elements yielded while variant v was streamed.
YieldsOf(v) == SelectSeq(yields, LAMBDA y : ~y.fallback /\ y.variant = v)

\* The cumulative texts of a sequence of fragments.
Cumulative(frags) == [k \in 1..Len(frags) |-> Flatten(SubSeq(frags, 1, k))]

\* C1 as stated: when the first N-1 variants complete with empty text and the
\* last completes with non-empty text, every yielded element is one of the last
\* variant's and none is the fallback message.
C1_AsStated ==
    (EarlierVariantsEmpty /\ outcomes[N].text # <<>>)
        => /\ GenEnded
           /\ \A i \in 1..Len(yields) :
                 ~yields[i].fallback /\ yields[i].variant = N

\* C1 as amended: when the first N-1 variants complete with empty text and the
\* last completes with text that is not blank, the generator ends without the
\* fallback message, what the earlier variants yielded are empty strings only
\* (one for each empty text part they delivered), and what the last variant
\* yielded are exactly its cumulative fragments, after them.
C1_LastVariantOnly ==
    (EarlierVariantsEmpty /\ NonBlank(outcomes[N].text))
        => /\ GenEnded
           /\ \A i \in 1..Len(yields) :
                 /\ ~yields[i].fallback
                 /\ yields[i].variant < N => yields[i].text = <<>>
                 /\ \A j \in 1..Len(yields) :
                       (yields[i].variant = N /\ yields[j].variant < N) => j < i
           /\ [k \in 1..Len(YieldsOf(N)) |-> YieldsOf(N)[k].text]
                 = Cumulative(received)
           /\ Len(Attempts) = N

\* The last of the N variants succeeded after an earlier one had yielded an
\* empty string: two fragments were delivered.
C1_Witness ==
    /\ pc = "gen_done"
    /\ EarlierVariantsEmpty
    /\ NonBlank(outcomes[N].text)
    /\ Len(yields) = 2
    /\ yields[1].variant < N
    /\ yields[2].variant = N

\* C2: when each of the N variants fails with a rate-limit error, raised by the
\* call or by the stream, the run made N attempts and N delays, and ended with
\* the fallback message as its last element.
C2_AllRateLimited ==
    (/\ Len(outcomes) = N
     /\ \A i \in 1..N :
           outcomes[i].end = "raised" /\ outcomes[i].err.kind = "rate_limit")
        => /\ Len(Attempts) = N
           /\ delays = [i \in 1..N |-> RateLimitDelay]
           /\ GenEnded \/ pc = "try"
           /\ pc = "try" => model_idx = N + 1 /\ ENABLED YieldFallback
           /\ GenEnded =>
                 /\ yields # <<>>
                 /\ Last(yields).fallback
                 /\ Last(yields).text = FallbackMessage
                 /\ streamed_text = FallbackMessage

\* All N variants were rate-limited, one by its call and one by its stream
\* after a fragment, and the run has ended.
C2_Witness ==
    /\ pc = "gen_done"
    /\ Len(outcomes) = N
    /\ \A i \in 1..N :
          outcomes[i].end = "raised" /\ outcomes[i].err.kind = "rate_limit"
    /\ \E i \in 1..N : outcomes[i].at = "call"
    /\ \E i \in 1..N : outcomes[i].at = "stream" /\ outcomes[i].text # <<>>
    /\ Last(yields).fallback

\* What C3 says of a completion with the text t at attempt i: the run ended
\* there.
EndedAt(i) ==
    /\ i = Len(outcomes)
    /\ GenEnded
    /\ Len(Attempts) = i
    /\ \A k \in 1..Len(yields) : ~yields[k].fallback

\* C3 as stated: a variant that completes with text of length > 0, whitespace
\* included, ends the run: no later variant is attempted, no fallback yielded.
C3_AsStated ==
    \A i \in 1..Len(outcomes) :
        (outcomes[i].end = "completed" /\ outcomes[i].text # <<>>) => EndedAt(i)

\* C3 as amended: a variant that completes with text that is not blank ends the
\* run: no later variant is attempted and no fallback message is yielded.
C3_NonBlankEnds ==
    \A i \in 1..Len(outcomes) :
        (outcomes[i].end = "completed" /\ NonBlank(outcomes[i].text))
            => EndedAt(i)

\* The first variant completed with a space and a letter; the run ended there.
C3_Witness ==
    /\ pc = "gen_done"
    /\ Len(outcomes) = 1
    /\ outcomes[1].end = "completed"
    /\ outcomes[1].text = <<" ", "a">>

\* C4 as stated: every yielded element but the fallback message has the element
\* yielded before it as a prefix.
C4_AsStated ==
    \A i \in 2..Len(yields) :
        ~yields[i].fallback => IsPrefix(yields[i - 1].text, yields[i].text)

\* C4 as amended: every yielded element but the fallback message is the
\* concatenation of the fragments received so far from the variant being
\* streamed, and has as a prefix the element yielded before it by the same
\* variant.
C4_CumulativePerVariant ==
    /\ (pc = "stream" /\ received # <<>>)
          => /\ Last(yields) = [variant |-> model_idx, fallback |-> FALSE,
                                text |-> Flatten(received)]
             /\ streamed_text = Flatten(received)
    /\ \A i \in 2..Len(yields) :
          (~yields[i].fallback /\ yields[i].variant = yields[i - 1].variant)
              => IsPrefix(yields[i - 1].text, yields[i].text)

\* A variant yielded twice, the second element longer than the first.
C4_Witness ==
    /\ pc = "stream"
    /\ Len(yields) = 2
    /\ yields[1].variant = yields[2].variant
    /\ yields[1].text = <<"a">>
    /\ yields[2].text = <<"a", " ">>

(* ======================================================================= *)
(* C5-C10 are about the input handler and the conversation store, and are  *)
(* checked under Spec.                                                     *)
(* ======================================================================= *)

\* C5: a step that starts handling an input appends the user Message with
\* exactly the input as content, before any external call; and every step that
\* calls the Search Client or the model, or appends the assistant Message,
\* starts in a state whose last Message is that user Message.
C5_UserMessageFirst ==
    [][ /\ (pc = "idle" /\ pc' # "idle")
            => /\ messages' = Append(messages, Message("user", prompt'))
               /\ prompt' \in UserInputs
               /\ calls' = <<>>
        /\ (\/ Len(calls') > Len(calls)
            \/ (Len(messages') > Len(messages) /\ Last(messages').role = "assistant"))
            => /\ messages # <<>>
               /\ Last(messages) = Message("user", prompt) ]_vars

\* An input with capital letters was answered by the model: the Search Client
\* and two variants were called, and the assistant Message follows the user's.
C5_Witness ==
    /\ pc = "end"
    /\ prompt = <<"H", "i">>
    /\ Len(messages) = 2
    /\ messages[1] = Message("user", prompt)
    /\ messages[2].role = "assistant"
    /\ Len(calls) = 3

\* C6: New Chat on a non-empty active chat appends the active chat to the end
\* of the archive and empties the active chat; no step of the program removes,
\* moves or changes an archived chat, and only New Chat adds one.
C6_ArchiveAppendOnly ==
    [][ /\ IsPrefix(past_chats, past_chats')
        /\ (NewChat /\ messages # <<>>)
            => /\ past_chats' = Append(past_chats, messages)
               /\ messages' = <<>>
        /\ past_chats' # past_chats => NewChat ]_vars

\* Two different chats are archived, the older first, and the active chat has
\* been emptied by New Chat.
C6_Witness ==
    /\ trigger = "New Chat"
    /\ messages = <<>>
    /\ Len(past_chats) = 2
    /\ past_chats[1] # past_chats[2]
    /\ past_chats[1][1].content = <<"H", "i">>

\* C7: New Chat on an empty active chat leaves the archive as it is and the
\* active chat empty; no archived chat is ever empty.
C7_EmptyNotArchived ==
    [][ /\ (NewChat /\ messages = <<>>)
            => /\ past_chats' = past_chats
               /\ messages' = <<>>
        /\ \A i \in 1..Len(past_chats') : past_chats'[i] # <<>> ]_vars

\* New Chat was pressed with nothing to archive: had the active chat held a
\* Message, the archive would not be empty.
C7_Witness ==
    /\ trigger = "New Chat"
    /\ messages = <<>>
    /\ past_chats = <<>>

\* The pairs of an upper-case letter and its lower-case letter, both ways.
CasePairs ==
    UNION { { <<UpperLetters[i], LowerLetters[i]>>,
              <<LowerLetters[i], UpperLetters[i]>> } : i \in 1..Len(UpperLetters) }

\* Two characters are the same letter in either case, or the same character.
SameIgnoringCase(c, d) == c = d \/ <<c, d>> \in CasePairs

\* t holds s at some position, letter case ignored.
HoldsIgnoringCase(t, s) ==
    \E i \in 0..(Len(t) - Len(s)) :
        \A k \in 1..Len(s) : SameIgnoringCase(t[i + k], s[k])

\* The Messages of the chats k, k-1, ..., 1 that hold s, a chat's in its order.
RECURSIVE FoundFrom(_, _, _)
FoundFrom(chats, k, s) ==
    IF k = 0 THEN <<>>
    ELSE SelectSeq(chats[k], LAMBDA m : HoldsIgnoringCase(m.content, s))
            \o FoundFrom(chats, k - 1, s)

\* C8: with a non-empty text in the search field, what the sidebar shows is
\* exactly the archived Messages whose content holds the text ignoring case,
\* the latest archived chat first and each chat in its order; the step that
\* searches changes neither the active chat nor the archive.
C8_SearchPastChats ==
    [][ /\ search_query' # <<>>
            => searchOut' = FoundFrom(past_chats', Len(past_chats'), search_query')
        /\ trigger' = "Search Past Chats"
            => messages' = messages /\ past_chats' = past_chats ]_vars

\* A search found Messages in two archived chats, the later chat's first, left
\* the archived Messages without the text out, and found a Message by a letter
\* in the other case.
C8_Witness ==
    /\ trigger = "Search Past Chats"
    /\ search_query = <<"H">>
    /\ Len(past_chats) = 2
    /\ Len(past_chats[1]) = 2
    /\ Len(past_chats[2]) = 2
    /\ past_chats[1][1].content = <<"H", "i">>
    /\ past_chats[2][1].content # <<"H", "i">>
    /\ ~Contains(past_chats[2][1].content, search_query)
    /\ searchOut = <<past_chats[2][1], past_chats[1][1]>>

\* The number of Messages of a sequence of chats.
RECURSIVE Count(_)
Count(chats) == IF chats = <<>> THEN 0 ELSE Len(Head(chats)) + Count(Tail(chats))

\* C9: for an input that starts with "search:" in any letter case, the query
\* handed to the Search Client is the rest of the input after that prefix,
\* with the whitespace around it trimmed.
C9_QueryIsRemainder ==
    pc = "search_append"
        => Last(calls).arg = Strip(Drop(prompt, Len(SearchPrefix)))

\* C10: when the handling of an input is over, an input that starts with
\* "search:" (in any letter case) has caused one Search Client call with count
\* 5, no model call and one assistant Message after the user's; any other input
\* has caused one Search Client call with the input as query and count 5, then
\* the attempts of one generator run in the order of the priority list, then
\* one assistant Message after the user's; in all, the chats hold two Messages
\* for each input.
C10_CallsPerInput ==
    pc = "end"
        => /\ Len(messages) >= 2
           /\ Len(messages) + Count(past_chats) = 2 * turns
           /\ messages[Len(messages) - 1] = Message("user", prompt)
           /\ Last(messages).role = "assistant"
           /\ calls # <<>>
           /\ calls[1].op = "search"
           /\ calls[1].num = 5
           /\ \A i \in 2..Len(calls) : calls[i].op = "generate"
           /\ IF StartsWith(Lower(prompt), SearchPrefix)
              THEN Len(calls) = 1
              ELSE /\ calls[1].arg = prompt
                   /\ Len(calls) >= 2
                   /\ Len(calls) = 1 + Len(outcomes)
                   /\ \A i \in 2..Len(calls) : calls[i].arg = MODEL_PRIORITY[i - 1]
                   /\ yields # <<>>
                   /\ Last(messages).content = Last(yields).text

\* The input "Search:x" was handled as a search command: one call, no model.
C10_Witness ==
    /\ pc = "end"
    /\ prompt = <<"S", "e", "a", "r", "c", "h", ":", "x">>
    /\ Len(calls) = 1
    /\ Len(messages) = 4
    /\ messages[3] = Message("user", prompt)
    /\ messages[4].role = "assistant"
    /\ messages[2].content = FallbackMessage

(* ======================================================================= *)
(* C11-C19.  The claims about one run of the generator or the handling of  *)
(* one input are checked under SpecGen, those about a session under Spec.  *)
(* ======================================================================= *)

\* A step of the script run that handles an input.
HandlerStep ==
    \/ SearchCall
    \/ AppendSearchResults
    \/ GenerateCall
    \/ StartVariant
    \/ StreamChunk
    \/ StreamEnd
    \/ StreamError
    \/ YieldFallback
    \/ AppendAssistant
    \/ EndRun

\* The positions of a script run that handles an input.
Handling ==
    {"dispatch", "search_append", "try", "stream", "gen_done", "end"}

\* A bound on the steps the handling of the input still takes: the events the
\* streams may still deliver, two steps for every variant not yet given up,
\* and the steps after the generator.
Rank ==
    CASE pc \notin Handling -> 0
      [] pc = "end" -> 1
      [] pc = "gen_done" -> 2
      [] pc = "search_append" -> 2
      [] pc = "try" -> 3 + 2 * (N + 1 - model_idx) + (budget.chunks - chunks)
      [] pc = "stream" -> 2 + 2 * (N + 1 - model_idx) + (budget.chunks - chunks)
      [] pc = "dispatch" -> 4 + 2 * N + budget.chunks

\* The Search Client failed: its one record is the "Error" record.
SearchFailed ==
    /\ Len(results) = 1
    /\ results[1].title = Some(<<"E", "r", "r", "o", "r">>)

\* C11: whatever the Search Client and the variants do (a failure of the
\* search; a completion with or without text, an exception of the call or of
\* the stream, rate limit or other), the handling of an input is never stuck
\* and never goes on for ever (every step lowers a natural number), and the
\* script run ends only after the assistant Message was appended after the
\* user's.
C11_RunsToCompletion ==
    /\ [](/\ pc \in {"start", "halted", "idle"} \cup Handling
          /\ Rank \in Nat
          /\ pc \in Handling => ENABLED HandlerStep
          /\ pc = "end"
                => /\ Len(messages) >= 2
                   /\ Last(messages).role = "assistant"
                   /\ messages[Len(messages) - 1] = Message("user", prompt))
    /\ [][ /\ pc \in Handling => Rank' < Rank
           /\ (pc \in Handling /\ pc' \notin Handling)
                => /\ pc = "end"
                   /\ pc' = "idle"
                   /\ messages' = messages
                   /\ Last(messages').role = "assistant" ]_vars

\* The search failed, the first variant's call raised, the second's stream
\* raised a rate-limit error after a fragment, the third completed with no
\* text; the fallback message was appended as the assistant Message.
C11_Witness ==
    /\ pc = "end"
    /\ SearchFailed
    /\ Len(outcomes) = N
    /\ outcomes[1].end = "raised" /\ outcomes[1].at = "call"
    /\ outcomes[1].err.kind = "other"
    /\ outcomes[2].end = "raised" /\ outcomes[2].at = "stream"
    /\ outcomes[2].err.kind = "rate_limit" /\ outcomes[2].text # <<>>
    /\ outcomes[3].end = "completed" /\ outcomes[3].text = <<>>
    /\ Last(messages) = Message("assistant", FallbackMessage)


\* What C12 says google_search returns for a request of n records on which
\* the provider did resp.
ReturnsAsSpecified(out, resp, n) ==
    IF resp.raises
    THEN /\ Len(out) = 1
         /\ out[1].title = Some(<<"E", "r", "r", "o", "r">>)
         /\ out[1].snippet = Some(resp.err)
    ELSE /\ Len(out) <= n
         /\ Len(out) <= Len(resp.items)
         /\ \A k \in 1..Len(out) : out[k] = resp.items[k]
         /\ (Len(out) < n /\ resp.hasItems) => Len(out) = Len(resp.items)

\* C12: a Search Client call always returns to the handler, with at most the
\* requested number of records (the first the provider found, in its order) or,
\* when the provider call raised, with the one record of title "Error" whose
\* snippet is the text of the exception; and so does google_search for every
\* count from 1 to one more than the handler's.
C12_SearchReturns ==
    /\ \A i \in 1..Len(calls) :
          calls[i].op = "search"
              => /\ pc \notin {"idle", "dispatch"}
                 /\ calls[i].num = SearchCount
                 /\ calls[i].arg # <<>>
                 /\ ReturnsAsSpecified(results, calls[i].answer, calls[i].num)
    /\ \A resp \in SearchResponses : \A n \in 1..(SearchCount + 1) :
          ReturnsAsSpecified(google_search(resp, n), resp, n)

\* The provider had found more than the handler asked for: the search branch
\* got exactly the first five.
C12_Witness ==
    /\ pc = "search_append"
    /\ Len(calls) = 1
    /\ Len(calls[1].answer.items) > calls[1].num
    /\ Len(results) = SearchCount
    /\ results[SearchCount].title = Some(<<"5">>)


\* What C13 says is rendered for an optional text: nothing when it is missing.
Shown(o) == IF o.some THEN o.val ELSE <<>>

\* The line C13 says is rendered for one search result.
LineAsClaimed(r) ==
    <<"-", " ">> \o Shown(r.title) \o <<":", " ">> \o Shown(r.snippet)
        \o <<" ", "(">> \o Shown(r.link) \o <<")">>

\* C13: in the generation branch the prompt handed to the generator holds, for
\* each search result, the line "- {title}: {snippet} ({link})", in which a
\* field missing from the provider record is the empty string.
C13_MissingRendersEmpty ==
    (pc \in {"try", "stream", "gen_done"})
        => FullPrompt(prompt, results)
              = PromptHead
                  \o Join(<<"\n">>, [i \in 1..Len(results) |-> LineAsClaimed(results[i])])
                  \o PromptQuestion \o prompt \o PromptTail


\* C14: when one of the three credentials is not set or is empty, the script
\* never gets past the startup check: it shows the error and stops, no Search
\* Client or model call is made, no Message is stored, no chat is archived, no
\* archive search is run and no input is taken.
C14_HaltsWithoutCredentials ==
    (\E n \in CredentialNames :
        credentials[n] = None \/ credentials[n] = Some(<<>>))
        => /\ pc \in {"start", "halted"}
           /\ pc = "halted" => notices = <<"error">>
           /\ calls = <<>>
           /\ outcomes = <<>>
           /\ yields = <<>>
           /\ messages = <<>>
           /\ past_chats = <<>>
           /\ searchOut = <<>>
           /\ trigger = "none"
           /\ turns = 0

\* The model key and the engine identifier are set and the search key is the
\* empty string: the script has stopped with the error.
C14_Witness ==
    /\ pc = "halted"
    /\ notices = <<"error">>
    /\ credentials["GEMINI_API_KEY"] = Some(<<"k">>)
    /\ credentials["GOOGLE_API_KEY"] = Some(<<>>)
    /\ credentials["GOOGLE_CSE_ID"] = Some(<<"k">>)


\* The attempts of the current run that ended with a rate-limit error.
RateLimited ==
    { i \in 1..Len(outcomes) :
        outcomes[i].end = "raised" /\ outcomes[i].err.kind = "rate_limit" }

\* C15: in a run of the generator the attempts followed by the delay, before
\* the next variant is started, are exactly those that failed with a
\* rate-limit error: there is one delay of the fixed length for each of them,
\* and none after a completion without text or after another error.
C15_DelayOnlyOnRateLimit ==
    /\ \A i \in 1..Len(outcomes) : outcomes[i].slept <=> i \in RateLimited
    /\ Len(delays) = Cardinality(RateLimited)
    /\ \A k \in 1..Len(delays) : delays[k] = RateLimitDelay


\* A step of get_gemini_streaming.
GeneratorStep ==
    \/ StartVariant
    \/ StreamChunk
    \/ StreamEnd
    \/ StreamError
    \/ YieldFallback

\* C16: the attempts of a run are the first variants of the priority list, in
\* its order and each once; an attempt is started only when the one before it
\* has ended; and, streams being finite, the generator is never stuck, every
\* step of it lowers a natural number, and it ends after at most N attempts,
\* either after a variant that completed with text or after the fallback
\* message, which it yields once all N have been given up.
C16_OrderedAndTerminates ==
    /\ [](/\ \A i \in 1..N : \A j \in 1..N :
                MODEL_PRIORITY[i] = MODEL_PRIORITY[j] => i = j
          /\ Len(Attempts) <= N
          /\ \A i \in 1..Len(Attempts) : Attempts[i].arg = MODEL_PRIORITY[i]
          /\ \A i \in 1..Len(outcomes) : outcomes[i].variant = i
          /\ pc = "try"
                => Len(outcomes) = Len(Attempts) /\ model_idx = Len(Attempts) + 1
          /\ pc = "stream"
                => Len(outcomes) + 1 = Len(Attempts) /\ model_idx = Len(Attempts)
          /\ pc \in {"try", "stream"} => ENABLED GeneratorStep
          /\ pc = "gen_done"
                => /\ Len(outcomes) = Len(Attempts)
                   /\ Len(Attempts) \in 1..N
                   /\ yields # <<>>
                   /\ IF Last(yields).fallback
                      THEN /\ Len(Attempts) = N
                           /\ \A k \in 1..(Len(yields) - 1) : ~yields[k].fallback
                           /\ \A i \in 1..N :
                                 outcomes[i].end = "completed"
                                     => ~NonBlank(outcomes[i].text)
                      ELSE /\ Last(outcomes).end = "completed"
                           /\ NonBlank(Last(outcomes).text)
                           /\ Last(yields).variant = Len(Attempts))
    /\ [][ (pc \in {"try", "stream"})
             => /\ Rank' < Rank
                /\ pc' \in {"try", "stream", "gen_done"}
                /\ \/ Attempts' = Attempts
                   \/ /\ pc = "try"
                      /\ Len(Attempts') = Len(Attempts) + 1
                      /\ SubSeq(Attempts', 1, Len(Attempts)) = Attempts ]_vars

\* The third and last variant ended the run with a text, after the first had
\* completed without text and the call of the second had raised.
C16_Witness ==
    /\ pc = "gen_done"
    /\ Len(Attempts) = N
    /\ [i \in 1..N |-> Attempts[i].arg] = MODEL_PRIORITY
    /\ outcomes[1].end = "completed"
    /\ outcomes[2].end = "raised"
    /\ outcomes[3].end = "completed"
    /\ NonBlank(outcomes[3].text)
    /\ ~Last(yields).fallback


\* C17: when the generation branch has handled an input, the one Message it
\* appended after the user's is the assistant Message whose content is the last
\* element the generator yielded: the concatenation of all the fragments of the
\* variant that completed with text, and of that variant only, or the fallback
\* message when no variant did; and nothing is appended before the generator
\* has ended.
C17_LastYieldStored ==
    /\ (pc \in {"try", "stream", "gen_done"} /\ turns = 1)
          => messages = <<Message("user", prompt)>>
    /\ (pc = "end" /\ ~StartsWith(Lower(prompt), SearchPrefix))
          => /\ turns = 1 => Len(messages) = 2
             /\ messages[Len(messages) - 1] = Message("user", prompt)
             /\ yields # <<>>
             /\ Last(messages) = Message("assistant", Last(yields).text)
             /\ IF \E i \in 1..Len(outcomes) :
                      outcomes[i].end = "completed" /\ NonBlank(outcomes[i].text)
                THEN /\ Last(outcomes).end = "completed"
                     /\ Last(messages).content = Last(outcomes).text
                     /\ Last(messages).content = Flatten(received)
                     /\ ~Last(yields).fallback
                ELSE /\ Last(messages).content = FallbackMessage
                     /\ Len(outcomes) = N

\* The first variant was given up after it streamed a space, the second
\* completed with a letter: the assistant Message holds the letter alone.
C17_Witness ==
    /\ pc = "end"
    /\ Len(outcomes) = 2
    /\ outcomes[1].text = <<" ">>
    /\ outcomes[2].text = <<"a">>
    /\ Len(yields) = 2
    /\ messages = <<Message("user", prompt), Message("assistant", <<"a">>)>>


\* The roles of a chat alternate, the user's first, the assistant's last.
Alternating(chat) ==
    /\ Len(chat) % 2 = 0
    /\ \A k \in 1..Len(chat) :
          chat[k].role = IF k % 2 = 1 THEN "user" ELSE "assistant"

\* C18: whenever no input is being handled, the roles of the active chat and of
\* every archived chat alternate, starting with user and ending with assistant,
\* so each chat has an even number of Messages; while an input is handled this
\* holds of the archive, and of the active chat up to the user Message last
\* appended or the pair it completes.
C18_RolesAlternate ==
    /\ \A i \in 1..Len(past_chats) : Alternating(past_chats[i])
    /\ pc \notin Handling => Alternating(messages)
    /\ pc \in Handling \ {"end"}
          => /\ messages # <<>>
             /\ Last(messages).role = "user"
             /\ Alternating(SubSeq(messages, 1, Len(messages) - 1))
    /\ pc = "end" => Alternating(messages)

\* Two inputs were handled in one chat, the chat was archived by New Chat and
\* the archive was searched: the archived chat holds four Messages.
C18_Witness ==
    /\ pc = "idle"
    /\ trigger = "Search Past Chats"
    /\ search_query # <<>>
    /\ messages = <<>>
    /\ Len(past_chats) = 1
    /\ Len(past_chats[1]) = 4
    /\ past_chats[1][3].role = "user"
    /\ past_chats[1][4].role = "assistant"


\* C19: a run of the generator that has ended has yielded at least one
\* element, and the last one holds a character that is not whitespace: it is
\* the whole text of the variant that completed last, or the fallback message;
\* so the content of the assistant Message of the generation branch is neither
\* empty nor blank.
C19_AnswerNeverBlank ==
    /\ (pc = "gen_done" \/ (pc = "end" /\ ~IsSearchCommand(prompt)))
          => /\ Len(yields) >= 1
             /\ NonBlank(Last(yields).text)
             /\ \/ /\ Last(yields).fallback
                   /\ Last(yields).text = FallbackMessage
                \/ /\ ~Last(yields).fallback
                   /\ outcomes # <<>>
                   /\ Last(outcomes).end = "completed"
                   /\ Last(yields).variant = Last(outcomes).variant
                   /\ Last(yields).text = Last(outcomes).text
             /\ streamed_text = Last(yields).text
    /\ (pc = "end" /\ ~IsSearchCommand(prompt))
          => /\ Last(messages).role = "assistant"
             /\ Last(messages).content # <<>>
             /\ Strip(Last(messages).content) # <<>>

\* A variant yielded a space and was given up, no other variant gave a text:
\* the elements are the space and the fallback message, which was stored.
C19_Witness ==
    /\ pc = "end"
    /\ Len(yields) = 2
    /\ yields[1].text = <<" ">>
    /\ yields[2].fallback
    /\ Last(messages).content = FallbackMessage

====
